---- MODULE Spec2Model ----
(***************************************************************************)
(* A model of facescan.py: the attendance ledger (attendance.json), the    *)
(* reference store (faces_db), recognize_face, add_face and the            *)
(* webcam_verification sessions kept in st.session_state.  One action is   *)
(* one run of the Streamlit script for one operator interaction.           *)
(***************************************************************************)
EXTENDS Integers, Sequences, FiniteSets, TLC

\* ------------------------------------------------------------------ bounds
\* The wall clock (seconds) stops advancing at MaxClock.
MaxClock == 1
\* log_check is not called on a ledger that already holds MaxLedger records.
MaxLedger == 2

\* ------------------------------------------------------------- input domains
\* Texts the operator can type in the registration box (sequences of
\* characters): empty, whitespace only, a name padded with whitespace.
Names == { <<>>, <<" ">>, <<" ", "a", " ">> }

CheckTypes == { "Check-In", "Check-Out" }

\* Python's None where a name (a sequence of characters) is expected.
None == << "None" >>

\* None where a frame or a capture time is expected.
NoFrame == -1

NoTime == -1

\* No action selected: 'current_action' is not in st.session_state.
NoAction == "None"

Times == 0 .. MaxClock

\* A camera frame is identified by the second it was taken in.
Images == Times

\* What cv2.VideoCapture(0) / cam.read() can do in one acquisition.
CamOutcomes == { "ok", "not_opened", "read_failed" }

\* What DeepFace.verify can do for one reference image.
Verdicts == { "true", "false", "error" }

\* Where a write of attendance.json can fail.
WriteFaults == { "none", "open", "dump" }

\* ------------------------------------------------------------ string helpers
RECURSIVE LStrip(_)
LStrip(s) ==
    IF s # <<>> /\ Head(s) = " " THEN LStrip(Tail(s)) ELSE s

RECURSIVE RStrip(_)
RStrip(s) ==
    IF s # <<>> /\ s[Len(s)] = " " THEN RStrip(SubSeq(s, 1, Len(s) - 1)) ELSE s

\* str.strip()
Strip(s) == RStrip(LStrip(s))

\* f"{name.strip()}.jpg": the file name of a reference image in DB_PATH.
JpgName(name) == Append(Strip(name), ".jpg")

\* f.endswith('.jpg')
EndsWithJpg(f) == f # <<>> /\ f[Len(f)] = ".jpg"

\* os.path.splitext(file)[0]: a leading-dot name has no extension to split.
SplitextStem(f) ==
    IF Len(f) >= 2 /\ f[Len(f)] \in { ".jpg", ".txt" }
    THEN SubSeq(f, 1, Len(f) - 1)
    ELSE f

\* A file of DB_PATH that is no reference image.
OtherFile == << "notes", ".txt" >>

\* A reference image DB_PATH may hold from an earlier run of the application.
EarlierFile == << "b", ".jpg" >>

DirNames == { JpgName(n) : n \in Names } \cup { EarlierFile, OtherFile }

\* The value of a name DB_PATH holds no file under.
NoFile == -1

\* os.listdir(DB_PATH), as a set.
ListDir(db) == { f \in DOMAIN db : db[f] # NoFile }

JpgFiles(db) == { f \in ListDir(db) : EndsWithJpg(f) }

\* The orders os.listdir may return a set of files in ("arbitrary order").
Orders(S) ==
    { q \in [1 .. Cardinality(S) -> S] : \A i, j \in 1 .. Cardinality(S) : q[i] = q[j] => i = j }

IsPrefix(s, t) == Len(s) <= Len(t) /\ SubSeq(t, 1, Len(s)) = s

\* ------------------------------------------------------------------ ledger
\* The state of attendance.json: absent; a JSON array of records ("array");
\* text json.load rejects, an empty or cut-off file included ("badjson");
\* JSON that is no array of records, such as {"a": 1} or 5 ("notarray");
\* present with no permission for this process ("unreadable").
FileKinds == { "absent", "array", "badjson", "notarray", "unreadable" }

LedgerFile(kind, recs) == [kind |-> kind, recs |-> recs]

Columns == << "Name", "Type", "Time" >>

\* pd.DataFrame(columns=["Name", "Type", "Time"])
EmptyFrame == [columns |-> Columns, rows |-> <<>>]

\* pd.DataFrame(data) for a list of {"Name", "Type", "Time"} dicts.
DataFrame(recs) ==
    [columns |-> IF recs = <<>> THEN <<>> ELSE Columns,
     rows |-> [i \in 1 .. Len(recs) |-> << recs[i].Name, recs[i].Type, recs[i].Time >>]]

\* Concat with the new entry put first.
ConcatNewFirst(df, new) ==
    [columns |-> IF df.columns = <<>> THEN new.columns ELSE df.columns,
     rows |-> new.rows \o df.rows]

\* pd.concat([df, new_entry], ignore_index=True)
Concat(df, new) ==
    [columns |-> IF df.columns = <<>> THEN new.columns ELSE df.columns,
     rows |-> df.rows \o new.rows]

\* df.to_dict('records')
ToDictRecords(df) ==
    [i \in 1 .. Len(df.rows) |->
        [Name |-> df.rows[i][1], Type |-> df.rows[i][2], Time |-> df.rows[i][3]]]

\* load_attendance_data: only JSONDecodeError and FileNotFoundError are
\* caught; PermissionError (open) and ValueError (pd.DataFrame) propagate.
load_attendance_data(file) ==
    CASE file.kind = "absent" -> [raised |-> FALSE, df |-> EmptyFrame]
      [] file.kind = "unreadable" -> [raised |-> TRUE, df |-> EmptyFrame]
      [] file.kind = "badjson" -> [raised |-> FALSE, df |-> EmptyFrame]
      [] file.kind = "notarray" -> [raised |-> TRUE, df |-> EmptyFrame]
      [] OTHER -> [raised |-> FALSE, df |-> DataFrame(file.recs)]

\* save_attendance_data: open(JSON_FILE, 'w') truncates the file before
\* json.dump writes; every exception is caught and reported as False.
save_attendance_data(file, df, fault) ==
    IF fault = "open" \/ file.kind = "unreadable"
    THEN [ok |-> FALSE, file |-> file]
    ELSE IF fault = "dump"
    THEN [ok |-> FALSE, file |-> LedgerFile("badjson", <<>>)]
    ELSE [ok |-> TRUE, file |-> LedgerFile("array", ToDictRecords(df))]

\* log_check refusing a Check-Out of a name the ledger has no Check-In for.
log_checkAfterCheckIn(file, name, check_type, now, fault) ==
    LET loaded == load_attendance_data(file)
        new_entry == DataFrame(<< [Name |-> name, Type |-> check_type, Time |-> now] >>)
        saved == save_attendance_data(file, Concat(loaded.df, new_entry), fault)
        checked_in == \E i \in 1 .. Len(loaded.df.rows) :
                          /\ loaded.df.rows[i][1] = name
                          /\ loaded.df.rows[i][2] = "Check-In"
    IN  IF loaded.raised
        THEN [raised |-> TRUE, ok |-> FALSE, file |-> file]
        ELSE IF check_type = "Check-Out" /\ ~checked_in
        THEN [raised |-> FALSE, ok |-> FALSE, file |-> file]
        ELSE [raised |-> FALSE, ok |-> saved.ok, file |-> saved.file]

\* log_check(name, check_type) at wall-clock second now.
log_check(file, name, check_type, now, fault) ==
    LET loaded == load_attendance_data(file)
        new_entry == DataFrame(<< [Name |-> name, Type |-> check_type, Time |-> now] >>)
        saved == save_attendance_data(file, Concat(loaded.df, new_entry), fault)
    IN  IF loaded.raised
        THEN [raised |-> TRUE, ok |-> FALSE, file |-> file]
        ELSE [raised |-> FALSE, ok |-> saved.ok, file |-> saved.file]

\* ---------------------------------------------------------------- verifier
\* ScanFrom with an oracle error ending the scan (break in place of continue).
RECURSIVE ScanAbortOnError(_, _, _)
ScanAbortOnError(files, oracle, i) ==
    IF i > Len(files)
    THEN [recognized |-> None, calls |-> <<>>]
    ELSE IF oracle[files[i]] = "true"
    THEN [recognized |-> SplitextStem(files[i]), calls |-> << files[i] >>]
    ELSE IF oracle[files[i]] = "error"
    THEN [recognized |-> None, calls |-> << files[i] >>]
    ELSE LET rest == ScanAbortOnError(files, oracle, i + 1)
         IN  [recognized |-> rest.recognized, calls |-> << files[i] >> \o rest.calls]

\* The for loop of recognize_face over files[i..]: the oracle is called for
\* one file after the other, an oracle error is skipped (continue), the first
\* verified=true ends the scan (break).
RECURSIVE ScanFrom(_, _, _)
ScanFrom(files, oracle, i) ==
    IF i > Len(files)
    THEN [recognized |-> None, calls |-> <<>>]
    ELSE IF oracle[files[i]] = "true"
    THEN [recognized |-> SplitextStem(files[i]), calls |-> << files[i] >>]
    ELSE LET rest == ScanFrom(files, oracle, i + 1)
         IN  [recognized |-> rest.recognized, calls |-> << files[i] >> \o rest.calls]

\* recognize_face(frame): db is DB_PATH, files the order os.listdir returns
\* its .jpg files in at line 71, oracle the outcome DeepFace.verify has for
\* each reference, list_fails whether that os.listdir raises, temp whether
\* temp_live.jpg exists on entry.  temp_live.jpg is written at line 69,
\* before the try whose finally removes it.
recognize_face(db, files, oracle, list_fails, temp) ==
    IF ListDir(db) = {}
    THEN [raised |-> FALSE, recognized |-> None, calls |-> <<>>, temp |-> temp]
    ELSE IF list_fails
    THEN [raised |-> TRUE, recognized |-> None, calls |-> <<>>, temp |-> TRUE]
    ELSE LET scan == ScanFrom(files, oracle, 1)
         IN  [raised |-> FALSE, recognized |-> scan.recognized,
              calls |-> scan.calls, temp |-> FALSE]

\* `if name:` on the result of recognize_face
Truthy(name) == name # None /\ name # <<>>

\* ------------------------------------------------------------ registration
\* add_face raising capture_face before it checks the name.
add_faceFlagFirst(name, pressed, cam, flag, db, now) ==
    IF pressed /\ Strip(name) = <<>>
    THEN [capture_face |-> TRUE, face_name |-> name, faces_db |-> db, camera |-> FALSE]
    ELSE IF ~(pressed \/ flag)
    THEN [capture_face |-> FALSE, face_name |-> name, faces_db |-> db, camera |-> FALSE]
    ELSE IF cam # "ok"
    THEN [capture_face |-> FALSE, face_name |-> name, faces_db |-> db, camera |-> TRUE]
    ELSE [capture_face |-> FALSE, face_name |-> <<>>,
          faces_db |-> [db EXCEPT ![JpgName(name)] = now], camera |-> TRUE]

\* add_face keeping the image a name already has.
add_faceKeepsFirst(name, pressed, cam, flag, db, now) ==
    IF pressed /\ Strip(name) = <<>>
    THEN [capture_face |-> flag, face_name |-> name, faces_db |-> db, camera |-> FALSE]
    ELSE IF ~(pressed \/ flag)
    THEN [capture_face |-> FALSE, face_name |-> name, faces_db |-> db, camera |-> FALSE]
    ELSE IF cam # "ok"
    THEN [capture_face |-> FALSE, face_name |-> name, faces_db |-> db, camera |-> TRUE]
    ELSE [capture_face |-> FALSE, face_name |-> <<>>,
          faces_db |-> IF db[JpgName(name)] = NoFile
                       THEN [db EXCEPT ![JpgName(name)] = now]
                       ELSE db,
          camera |-> TRUE]

\* add_face() in one run of the script: name is the text in the box, pressed
\* whether "Capture Face" was clicked, cam what the camera does, flag
\* st.session_state.capture_face on entry, db the reference store, now the
\* second the frame is taken in.  camera says whether cv2.VideoCapture(0) was
\* called.
add_face(name, pressed, cam, flag, db, now) ==
    IF pressed /\ Strip(name) = <<>>
    THEN [capture_face |-> flag, face_name |-> name, faces_db |-> db, camera |-> FALSE]
    ELSE IF ~(pressed \/ flag)
    THEN [capture_face |-> FALSE, face_name |-> name, faces_db |-> db, camera |-> FALSE]
    ELSE IF cam # "ok"
    THEN [capture_face |-> FALSE, face_name |-> name, faces_db |-> db, camera |-> TRUE]
    ELSE [capture_face |-> FALSE, face_name |-> <<>>,
          faces_db |-> [db EXCEPT ![JpgName(name)] = now], camera |-> TRUE]

\* ---------------------------------------------------------------- sessions
\* session_key is not in st.session_state.
Absent == [absent |-> TRUE]

\* The dict lines 164-168 and 258-262 store under session_key.
NewSession == [frame |-> NoFrame, verification_done |-> FALSE, last_capture_time |-> NoTime]

\* Line 157: webcam_verification goes on only when DB_PATH holds a .jpg file.
HasRegisteredFaces(db) == JpgFiles(db) # {}

\* EnsureSession without the return of line 159.
EnsureSessionAnyStore(sessions, check_type, db) ==
    IF sessions[check_type] # Absent
    THEN sessions
    ELSE [sessions EXCEPT ![check_type] = NewSession]

\* Lines 156-168 of webcam_verification(check_type): nothing happens without
\* a registered face; otherwise the session of check_type is created if it is
\* not in st.session_state.
EnsureSession(sessions, check_type, db) ==
    IF ~HasRegisteredFaces(db) \/ sessions[check_type] # Absent
    THEN sessions
    ELSE [sessions EXCEPT ![check_type] = NewSession]

\* Lines 347-349: the verification interface of the selected action is run in
\* every run of the script.
ShowVerification(sessions, action, db) ==
    IF action = NoAction THEN sessions ELSE EnsureSession(sessions, action, db)

\* CaptureFrame dropping the earlier frame when the camera fails.
CaptureFrameDropOnFail(session, cam, now) ==
    IF cam = "ok"
    THEN [frame |-> now, verification_done |-> FALSE, last_capture_time |-> now]
    ELSE [session EXCEPT !.frame = NoFrame, !.verification_done = FALSE]

\* Lines 171-188, "Capture Frame" clicked.
CaptureFrame(session, cam, now) ==
    IF cam = "ok"
    THEN [frame |-> now, verification_done |-> FALSE, last_capture_time |-> now]
    ELSE session

\* RecaptureFrame without line 252.
RecaptureFrameKeepsDone(session) ==
    [session EXCEPT !.frame = NoFrame]

\* Lines 249-253, "Recapture Frame" clicked.
RecaptureFrame(session) ==
    [session EXCEPT !.frame = NoFrame, !.verification_done = FALSE]

\* VerifyFrame giving up the frame when no name was recognized.
VerifyFrameDropOnNoMatch(session, check_type, recognition, file, now, fault) ==
    IF recognition.raised \/ ~Truthy(recognition.recognized)
    THEN [session |-> [session EXCEPT !.frame = NoFrame, !.last_capture_time = NoTime],
          file |-> file, logged |-> FALSE]
    ELSE LET logres == log_check(file, recognition.recognized, check_type, now, fault)
         IN  [session |-> IF logres.ok
                          THEN [session EXCEPT !.verification_done = TRUE]
                          ELSE session,
              file |-> logres.file,
              logged |-> logres.ok]

\* VerifyFrame marking the verification done whatever log_check returns.
VerifyFrameAlwaysDone(session, check_type, recognition, file, now, fault) ==
    IF recognition.raised \/ ~Truthy(recognition.recognized)
    THEN [session |-> session, file |-> file, logged |-> FALSE]
    ELSE LET logres == log_check(file, recognition.recognized, check_type, now, fault)
         IN  [session |-> [session EXCEPT !.verification_done = TRUE],
              file |-> logres.file,
              logged |-> logres.ok]

\* Lines 207-246, "Verify" clicked: recognize_face, then log_check for a
\* recognized name; `except Exception` at line 245 swallows what either raises.
VerifyFrame(session, check_type, recognition, file, now, fault) ==
    IF recognition.raised \/ ~Truthy(recognition.recognized)
    THEN [session |-> session, file |-> file, logged |-> FALSE]
    ELSE LET logres == log_check(file, recognition.recognized, check_type, now, fault)
         IN  [session |-> IF logres.ok
                          THEN [session EXCEPT !.verification_done = TRUE]
                          ELSE session,
              file |-> logres.file,
              logged |-> logres.ok]

\* ------------------------------------------------------------------- state
VARIABLES
    faces_db,        \* DB_PATH: file name -> the image stored under it, or NoFile
    attendance,      \* JSON_FILE
    temp_live,       \* whether temp_live.jpg exists
    clock,           \* datetime.now(), in seconds
    capture_face,    \* st.session_state.capture_face
    face_name,       \* st.session_state.face_name, the text in the name box
    current_action,  \* st.session_state.current_action, or NoAction
    verification,    \* check type -> st.session_state[session_key], or Absent
    ev,              \* history: the last operation and what it returned
    pending          \* operator -> the log_check that operator's thread is in

vars == << faces_db, attendance, temp_live, clock, capture_face, face_name,
           current_action, verification, ev, pending >>

\* What one run of the script did: the button clicked, the check type it
\* belongs to, the name recognize_face returned, whether log_check returned
\* True, whether add_face opened the camera.
Event(op, check_type, name, logged, camera) ==
    [op |-> op, check_type |-> check_type, name |-> name, logged |-> logged, camera |-> camera]

\* The browser sessions, each run by a thread of its own.
Operators == { 1, 2 }

\* The locals of a log_check that is not running.
NotRunning ==
    [pc |-> "idle", df |-> EmptyFrame,
     record |-> [Name |-> None, Type |-> NoAction, Time |-> NoTime], ok |-> FALSE]

NoPending == [o \in Operators |-> NotRunning]

\* The number of records json.load finds in the file.
LedgerLen(file) == IF file.kind = "array" THEN Len(file.recs) ELSE 0

\* The camera is asked only where the code opens it.
CamFor(used) == IF used THEN CamOutcomes ELSE { "ok" }

EmptyStore == [f \in DirNames |-> NoFile]

\* The session state of a fresh browser session after the first run of the
\* script (lines 108-111; no action selected, no session key).
FreshSession ==
    /\ capture_face = FALSE
    /\ face_name = <<>>
    /\ current_action = NoAction
    /\ verification = [t \in CheckTypes |-> Absent]

\* The application started in an empty working directory.
Init ==
    /\ faces_db = EmptyStore
    /\ attendance = LedgerFile("absent", <<>>)
    /\ temp_live = FALSE
    /\ clock = 0
    /\ FreshSession
    /\ ev = Event("start", NoAction, None, FALSE, FALSE)
    /\ pending = NoPending

\* ----------------------------------------------------------------- actions
\* Time passes; the script does not run.
Tick ==
    /\ clock < MaxClock
    /\ clock' = clock + 1
    /\ ev' = Event("tick", NoAction, None, FALSE, FALSE)
    /\ UNCHANGED << pending, faces_db, attendance, temp_live, capture_face, face_name,
                    current_action, verification >>

\* The operator edits the name box: a run with no button clicked.
EnterName ==
    \E name \in Names, cam \in CamFor(capture_face) :
        LET reg == add_face(name, FALSE, cam, capture_face, faces_db, clock)
        IN  /\ capture_face' = reg.capture_face
            /\ face_name' = reg.face_name
            /\ faces_db' = reg.faces_db
            /\ verification' = ShowVerification(verification, current_action, reg.faces_db)
            /\ ev' = Event("enter_name", NoAction, None, FALSE, reg.camera)
            /\ UNCHANGED << pending, attendance, temp_live, clock, current_action >>

\* "Capture Face" clicked with the text of the name box.
CaptureFaceClick ==
    \E cam \in CamOutcomes :
        LET reg == add_face(face_name, TRUE, cam, capture_face, faces_db, clock)
        IN  /\ capture_face' = reg.capture_face
            /\ face_name' = reg.face_name
            /\ faces_db' = reg.faces_db
            /\ verification' = ShowVerification(verification, current_action, reg.faces_db)
            /\ ev' = Event("capture_face", NoAction, None, FALSE, reg.camera)
            /\ UNCHANGED << pending, attendance, temp_live, clock, current_action >>

\* "Start Check-In" / "Start Check-Out" clicked (lines 338-349).
StartCheckClick ==
    \E t \in CheckTypes, cam \in CamFor(capture_face) :
        LET reg == add_face(face_name, FALSE, cam, capture_face, faces_db, clock)
        IN  /\ capture_face' = reg.capture_face
            /\ face_name' = reg.face_name
            /\ faces_db' = reg.faces_db
            /\ current_action' = t
            /\ verification' = EnsureSession(verification, t, reg.faces_db)
            /\ ev' = Event("start_check", t, None, FALSE, reg.camera)
            /\ UNCHANGED << pending, attendance, temp_live, clock >>

\* "Capture Frame for <check type>" clicked; the button is there when the
\* action is selected and a face is registered.
CaptureFrameClick ==
    \E t \in CheckTypes, cam \in CamFor(capture_face), shot \in CamOutcomes :
        LET reg == add_face(face_name, FALSE, cam, capture_face, faces_db, clock)
            sessions == EnsureSession(verification, t, reg.faces_db)
        IN  /\ current_action = t
            /\ HasRegisteredFaces(faces_db)
            /\ capture_face' = reg.capture_face
            /\ face_name' = reg.face_name
            /\ faces_db' = reg.faces_db
            /\ verification' = [sessions EXCEPT ![t] = CaptureFrame(sessions[t], shot, clock)]
            /\ ev' = Event(IF shot = "ok" THEN "capture_frame" ELSE "capture_failed",
                           t, None, FALSE, reg.camera)
            /\ UNCHANGED << pending, attendance, temp_live, clock, current_action >>

\* "Verify & <check type>" clicked; the button is there when the session
\* holds a frame (line 191).
VerifyClick ==
    \E t \in CheckTypes, cam \in CamFor(capture_face), list_fails \in BOOLEAN,
       fault \in WriteFaults :
        LET reg == add_face(face_name, FALSE, cam, capture_face, faces_db, clock)
        IN  /\ current_action = t
            /\ HasRegisteredFaces(faces_db)
            /\ verification[t] # Absent
            /\ verification[t].frame # NoFrame
            /\ LedgerLen(attendance) < MaxLedger
            /\ \E files \in Orders(JpgFiles(reg.faces_db)),
                  oracle \in [JpgFiles(reg.faces_db) -> Verdicts] :
                   LET recognition == recognize_face(reg.faces_db, files, oracle,
                                                     list_fails, temp_live)
                       done == VerifyFrame(verification[t], t, recognition,
                                           attendance, clock, fault)
                   IN  /\ verification' = [verification EXCEPT ![t] = done.session]
                       /\ attendance' = done.file
                       /\ temp_live' = recognition.temp
                       /\ ev' = Event("verify", t, recognition.recognized,
                                      done.logged, reg.camera)
            /\ capture_face' = reg.capture_face
            /\ face_name' = reg.face_name
            /\ faces_db' = reg.faces_db
            /\ UNCHANGED << pending, clock, current_action >>

\* "Recapture Frame" clicked (shown with the frame), then st.rerun().
RecaptureClick ==
    \E t \in CheckTypes, cam \in CamFor(capture_face) :
        LET reg == add_face(face_name, FALSE, cam, capture_face, faces_db, clock)
        IN  /\ current_action = t
            /\ HasRegisteredFaces(faces_db)
            /\ verification[t] # Absent
            /\ verification[t].frame # NoFrame
            /\ verification' = [verification EXCEPT ![t] = RecaptureFrame(verification[t])]
            /\ capture_face' = reg.capture_face
            /\ face_name' = reg.face_name
            /\ faces_db' = reg.faces_db
            /\ ev' = Event("recapture", t, None, FALSE, reg.camera)
            /\ UNCHANGED << pending, attendance, temp_live, clock, current_action >>

\* "Start New <check type>" clicked (shown with the frame while
\* verification_done, line 256), then st.rerun().
StartNewClick ==
    \E t \in CheckTypes, cam \in CamFor(capture_face) :
        LET reg == add_face(face_name, FALSE, cam, capture_face, faces_db, clock)
        IN  /\ current_action = t
            /\ HasRegisteredFaces(faces_db)
            /\ verification[t] # Absent
            /\ verification[t].frame # NoFrame
            /\ verification[t].verification_done
            /\ verification' = [verification EXCEPT ![t] = NewSession]
            /\ capture_face' = reg.capture_face
            /\ face_name' = reg.face_name
            /\ faces_db' = reg.faces_db
            /\ ev' = Event("reset", t, None, FALSE, reg.camera)
            /\ UNCHANGED << pending, attendance, temp_live, clock, current_action >>

\* ResetAllClick removing attendance.json with the session keys.
ResetAllRemovesLedger ==
    \E cam \in CamFor(capture_face) :
        LET reg == add_face(face_name, FALSE, cam, capture_face, faces_db, clock)
        IN  /\ ~load_attendance_data(attendance).raised
            /\ faces_db' = reg.faces_db
            /\ capture_face' = FALSE
            /\ face_name' = <<>>
            /\ current_action' = NoAction
            /\ verification' = [t \in CheckTypes |-> Absent]
            /\ attendance' = LedgerFile("absent", <<>>)
            /\ ev' = Event("reset_all", NoAction, None, FALSE, reg.camera)
            /\ UNCHANGED << pending, temp_live, clock >>

\* "Reset All Sessions" clicked (lines 378-382): every key is deleted and the
\* rerun starts from a fresh session state.  The sidebar is reached only when
\* display_attendance_log did not raise.
ResetAllClick ==
    \E cam \in CamFor(capture_face) :
        LET reg == add_face(face_name, FALSE, cam, capture_face, faces_db, clock)
        IN  /\ ~load_attendance_data(attendance).raised
            /\ faces_db' = reg.faces_db
            /\ capture_face' = FALSE
            /\ face_name' = <<>>
            /\ current_action' = NoAction
            /\ verification' = [t \in CheckTypes |-> Absent]
            /\ ev' = Event("reset_all", NoAction, None, FALSE, reg.camera)
            /\ UNCHANGED << pending, attendance, temp_live, clock >>

Next ==
    \/ Tick
    \/ EnterName
    \/ CaptureFaceClick
    \/ StartCheckClick
    \/ CaptureFrameClick
    \/ VerifyClick
    \/ RecaptureClick
    \/ StartNewClick
    \/ ResetAllClick

Spec == Init /\ [][Next]_vars

\* ------------------------------------------------------------ direct calls
\* The functions called on their own, as a test of the module would call
\* them, on any state the files can be in.

\* The names a record of the ledger can carry.
RecordNames == { SplitextStem(f) : f \in { g \in DirNames : EndsWithJpg(g) /\ Len(g) >= 2 } }

Records == [Name : RecordNames, Type : CheckTypes, Time : Times]

RECURSIVE SeqsUpTo(_, _)
SeqsUpTo(S, n) ==
    IF n = 0
    THEN { <<>> }
    ELSE LET shorter == SeqsUpTo(S, n - 1)
         IN  shorter \cup { Append(q, x) : q \in { r \in shorter : Len(r) = n - 1 }, x \in S }

\* attendance.json before the call: absent, damaged, or a ledger of up to
\* MaxLedger - 1 records.
LedgerFiles ==
    { LedgerFile(k, <<>>) : k \in FileKinds \ { "array" } }
        \cup { LedgerFile("array", q) : q \in SeqsUpTo(Records, MaxLedger - 1) }

\* DB_PATH before the call: any of the files an earlier run can have left.
Stores ==
    { db \in [DirNames -> { NoFile, 0 }] : db[JpgName(<<>>)] = NoFile }

\* load_attendance_data()
LoadCall ==
    LET loaded == load_attendance_data(attendance)
    IN  /\ ev' = [op |-> "load_attendance_data", raised |-> loaded.raised,
                  records |-> ToDictRecords(loaded.df)]
        /\ UNCHANGED << pending, faces_db, attendance, temp_live, clock, capture_face,
                        face_name, current_action, verification >>

\* log_check(name, check_type)
LogCheckCall ==
    \E name \in RecordNames, t \in CheckTypes, fault \in WriteFaults :
        LET res == log_check(attendance, name, t, clock, fault)
        IN  /\ LedgerLen(attendance) < MaxLedger
            /\ attendance' = res.file
            /\ ev' = [op |-> "log_check", raised |-> res.raised, ok |-> res.ok,
                      before |-> attendance,
                      record |-> [Name |-> name, Type |-> t, Time |-> clock]]
            /\ UNCHANGED << pending, faces_db, temp_live, clock, capture_face, face_name,
                            current_action, verification >>

\* recognize_face(frame)
RecognizeCall ==
    \E list_fails \in BOOLEAN, files \in Orders(JpgFiles(faces_db)),
       oracle \in [JpgFiles(faces_db) -> Verdicts] :
        LET res == recognize_face(faces_db, files, oracle, list_fails, temp_live)
        IN  /\ temp_live' = res.temp
            /\ ev' = [op |-> "recognize_face", raised |-> res.raised,
                      name |-> res.recognized, calls |-> res.calls,
                      files |-> files, oracle |-> oracle]
            /\ UNCHANGED << pending, faces_db, attendance, clock, capture_face, face_name,
                            current_action, verification >>

\* The ledger functions on any ledger file.
InitLedger ==
    /\ faces_db = EmptyStore
    /\ attendance \in LedgerFiles
    /\ temp_live = FALSE
    /\ clock = 0
    /\ FreshSession
    /\ ev = Event("start", NoAction, None, FALSE, FALSE)
    /\ pending = NoPending

NextLedger ==
    \/ Tick
    \/ LoadCall
    \/ LogCheckCall

SpecLedger == InitLedger /\ [][NextLedger]_vars

\* recognize_face and the entry of webcam_verification on any reference store.
InitVerifier ==
    /\ faces_db \in Stores
    /\ attendance = LedgerFile("absent", <<>>)
    /\ temp_live = FALSE
    /\ clock = 0
    /\ FreshSession
    /\ ev = Event("start", NoAction, None, FALSE, FALSE)
    /\ pending = NoPending

NextVerifier ==
    \/ RecognizeCall
    \/ Tick
    \/ StartCheckClick
    \/ ResetAllClick

SpecVerifier == InitVerifier /\ [][NextVerifier]_vars

\* The verification sessions of an installation whose reference store was
\* filled by an earlier run and is not registered to.
InitSession ==
    /\ faces_db \in { db \in Stores : db[JpgName(<< "a" >>)] = NoFile }
    /\ attendance = LedgerFile("absent", <<>>)
    /\ temp_live = FALSE
    /\ clock = 0
    /\ FreshSession
    /\ ev = Event("start", NoAction, None, FALSE, FALSE)
    /\ pending = NoPending

NextSession ==
    \/ Tick
    \/ StartCheckClick
    \/ CaptureFrameClick
    \/ VerifyClick
    \/ RecaptureClick
    \/ StartNewClick
    \/ ResetAllClick

SpecSession == InitSession /\ [][NextSession]_vars

\* add_face() with the text name in the box
AddFaceCall ==
    \E name \in Names, pressed \in BOOLEAN, cam \in CamOutcomes :
        LET reg == add_face(name, pressed, cam, capture_face, faces_db, clock)
        IN  /\ capture_face' = reg.capture_face
            /\ face_name' = reg.face_name
            /\ faces_db' = reg.faces_db
            /\ ev' = [op |-> "add_face", name |-> name, pressed |-> pressed,
                      cam |-> cam, camera |-> reg.camera, before |-> faces_db]
            /\ UNCHANGED << pending, attendance, temp_live, clock, current_action,
                            verification >>

\* add_face on any reference store.
InitRegister ==
    /\ faces_db \in Stores
    /\ attendance = LedgerFile("absent", <<>>)
    /\ temp_live = FALSE
    /\ clock = 0
    /\ FreshSession
    /\ ev = Event("start", NoAction, None, FALSE, FALSE)
    /\ pending = NoPending

NextRegister ==
    \/ Tick
    \/ AddFaceCall

SpecRegister == InitRegister /\ [][NextRegister]_vars

\* Lines 40-47 of log_check(name, check_type) in the thread of operator o:
\* the time is taken, the file is loaded and the new entry is put after the
\* loaded rows.  A load that raises ends the call.
LogCheckLoad ==
    \E o \in Operators, name \in RecordNames, t \in CheckTypes :
        LET loaded == load_attendance_data(attendance)
            record == [Name |-> name, Type |-> t, Time |-> clock]
        IN  /\ pending[o].pc = "idle"
            /\ pending' = [pending EXCEPT ![o] =
                   IF loaded.raised
                   THEN [pc |-> "done", df |-> EmptyFrame, record |-> record, ok |-> FALSE]
                   ELSE [pc |-> "loaded", df |-> Concat(loaded.df, DataFrame(<< record >>)),
                         record |-> record, ok |-> FALSE]]
            /\ UNCHANGED << faces_db, attendance, temp_live, clock, capture_face,
                            face_name, current_action, verification, ev >>

\* Lines 50-56 of log_check in the thread of operator o: the whole file is
\* rewritten from the frame that thread built.
LogCheckSave ==
    \E o \in Operators, fault \in WriteFaults :
        LET saved == save_attendance_data(attendance, pending[o].df, fault)
        IN  /\ pending[o].pc = "loaded"
            /\ attendance' = saved.file
            /\ pending' = [pending EXCEPT ![o].pc = "done", ![o].ok = saved.ok]
            /\ UNCHANGED << faces_db, temp_live, clock, capture_face, face_name,
                            current_action, verification, ev >>

\* Two operators, each calling log_check once, on any ledger file.
InitConcurrent ==
    /\ faces_db = EmptyStore
    /\ attendance \in LedgerFiles
    /\ temp_live = FALSE
    /\ clock = 0
    /\ FreshSession
    /\ ev = Event("start", NoAction, None, FALSE, FALSE)
    /\ pending = NoPending

NextConcurrent ==
    \/ Tick
    \/ LogCheckLoad
    \/ LogCheckSave

SpecConcurrent == InitConcurrent /\ [][NextConcurrent]_vars

\* ------------------------------------------------------------------ claims
\* C1: for a well-formed ledger file holding the sequence S and any record
\* r, after log_check returned True load_attendance_data yields S followed
\* by r: the earlier records in their order, r last.
AppendThenLoad ==
    (ev.op = "log_check" /\ ev.ok /\ ev.before.kind = "array") =>
        LET after == load_attendance_data(attendance)
        IN  /\ ~after.raised
            /\ ToDictRecords(after.df) = ev.before.recs \o << ev.record >>

\* A record was appended to a ledger that held another one.
AppendThenLoadWitness ==
    /\ ev.op = "log_check"
    /\ ev.ok
    /\ ev.before.kind = "array"
    /\ Len(ev.before.recs) = 1
    /\ ev.before.recs[1] # ev.record

\* C2: a write attempt that failed, at open or during serialization, leaves
\* the ledger file as the last successful write left it, never truncated or
\* partial.
FailedWriteKeepsLedger ==
    (ev.op = "log_check" /\ ~ev.raised /\ ~ev.ok) =>
        LET earlier == load_attendance_data(ev.before)
            later == load_attendance_data(attendance)
        IN  /\ ~later.raised
            /\ ToDictRecords(later.df) = ToDictRecords(earlier.df)

\* C3: the ledger is append-only: over every step of the application, what
\* load_attendance_data returned before the step is a prefix of what it
\* returns after it.
LedgerAppendOnly ==
    [][LET earlier == load_attendance_data(attendance)
           later == load_attendance_data(attendance')
       IN  (~earlier.raised /\ ~later.raised) =>
               IsPrefix(ToDictRecords(earlier.df), ToDictRecords(later.df))]_vars

\* C4: load_attendance_data never raises, and returns an empty sequence for
\* every ledger file that is not well-formed: absent, not JSON, JSON that is
\* no array of records, unreadable.
LoadNeverRaises ==
    ev.op = "load_attendance_data" =>
        /\ ~ev.raised
        /\ attendance.kind # "array" => ev.records = <<>>

\* C5: recognize_face asks the oracle about the references in enumeration
\* order and returns the identity of the first one the oracle verifies,
\* with no call after it; a reference the oracle fails for is skipped; the
\* result is None exactly when the oracle verifies no reference.
FirstMatchWins ==
    (ev.op = "recognize_face" /\ ~ev.raised) =>
        LET hits == { i \in 1 .. Len(ev.files) : ev.oracle[ev.files[i]] = "true" }
        IN  IF hits = {}
            THEN ev.name = None /\ ev.calls = ev.files
            ELSE LET first == CHOOSE k \in hits : \A j \in hits : k <= j
                 IN  /\ JpgName(ev.name) = ev.files[first]
                     /\ ev.calls = SubSeq(ev.files, 1, first)

\* The oracle failed for the first reference and verified the second one,
\* which was returned.
FirstMatchWinsWitness ==
    /\ ev.op = "recognize_face"
    /\ Len(ev.files) = 2
    /\ ev.oracle[ev.files[1]] = "error"
    /\ ev.oracle[ev.files[2]] = "true"
    /\ JpgName(ev.name) = ev.files[2]
    /\ Len(ev.calls) = 2

\* C6: a verify that recognized a name while log_check failed leaves the
\* session as it was: from a session holding an unverified frame,
\* verification_done stays false and the frame is kept, so "Start New" is not
\* shown and "Verify" still is.
FailedAppendKeepsFrameCaptured ==
    [][(/\ ev'.op = "verify"
        /\ Truthy(ev'.name)
        /\ ~ev'.logged
        /\ ~verification[ev'.check_type].verification_done)
       => (/\ verification'[ev'.check_type] = verification[ev'.check_type]
           /\ verification'[ev'.check_type].frame # NoFrame
           /\ ~verification'[ev'.check_type].verification_done)]_vars

\* A name was recognized, the append failed and cut the ledger file, and the
\* session still holds its unverified frame.
FailedAppendWitness ==
    /\ ev.op = "verify"
    /\ Truthy(ev.name)
    /\ ~ev.logged
    /\ attendance.kind = "badjson"
    /\ verification[ev.check_type].frame # NoFrame
    /\ ~verification[ev.check_type].verification_done

\* C7: right after "Recapture Frame" the session is empty: the frame and
\* last_capture_time are discarded and verification_done is false.
RecaptureEmptiesSession ==
    ev.op = "recapture" => verification[ev.check_type] = NewSession

\* C8: with no registered identity in the reference store, recognize_face
\* returns None without an oracle call, webcam_verification sets up no
\* session and offers neither capture nor verify, and the ledger is as it
\* was.
EmptyStoreShortCircuits ==
    JpgFiles(faces_db) = {} =>
        /\ \A t \in CheckTypes : verification[t] = Absent
        /\ ~ENABLED CaptureFrameClick
        /\ ~ENABLED VerifyClick
        /\ attendance = LedgerFile("absent", <<>>)
        /\ ev.op = "recognize_face" => (ev.name = None /\ ev.calls = <<>>)

\* recognize_face was called on a store holding no reference image while an
\* action was selected.
EmptyStoreWitness ==
    /\ JpgFiles(faces_db) = {}
    /\ ListDir(faces_db) # {}
    /\ current_action # NoAction
    /\ ev.op = "recognize_face"
    /\ ~ev.raised

\* C9: temp_live.jpg does not exist when recognize_face returns or raises,
\* on any of its exit paths.
TempRemovedOnExit ==
    ev.op = "recognize_face" => ~temp_live

\* C10: a run of the script that is not a click on "Capture Face" with a
\* name that is non-empty after trimming opens no camera for registration
\* and leaves the reference store as it was; so does the rejected click and
\* every run after it.
RejectedRegistrationIsInert ==
    [][(ev'.op = "capture_face" /\ Strip(face_name) # <<>>)
       \/ (faces_db' = faces_db /\ ~ev'.camera)]_vars

\* "Capture Face" was clicked with a whitespace-only name while a face was
\* registered, and the click was rejected.
RejectedRegistrationWitness ==
    /\ ev.op = "capture_face"
    /\ ~ev.camera
    /\ face_name = << " " >>
    /\ ~capture_face
    /\ HasRegisteredFaces(faces_db)

\* C11: a session that is verified (verification_done true) comes to hold no
\* frame only by "Start New" of its own check type, and the session is then
\* the empty one: frame, verification_done and last_capture_time are all
\* cleared.
OnlyResetLeavesVerified ==
    [][\A t \in CheckTypes :
         (/\ verification[t] # Absent
          /\ verification[t].verification_done
          /\ verification'[t] # Absent
          /\ verification'[t].frame = NoFrame)
         => (/\ ev'.op = "reset"
             /\ ev'.check_type = t
             /\ verification'[t] = NewSession)]_vars

\* C12: a "Capture Frame" click whose camera cannot be opened or whose read
\* fails leaves every session (frame, verification_done, last_capture_time)
\* and the ledger file as they were.
FailedCaptureChangesNothing ==
    [][ev'.op = "capture_failed" =>
           (verification' = verification /\ attendance' = attendance)]_vars

\* A capture failed for a verified session, which still holds its frame, its
\* flag and its capture time, with a record in the ledger.
FailedCaptureWitness ==
    /\ ev.op = "capture_failed"
    /\ verification[ev.check_type].frame # NoFrame
    /\ verification[ev.check_type].verification_done
    /\ verification[ev.check_type].last_capture_time # NoTime
    /\ LedgerLen(attendance) = 1

\* C13: a verify in which no name was recognized leaves the session as it
\* was: the frame and last_capture_time are kept and verification_done does
\* not change (it stays false for a session not yet verified); the ledger
\* file is as it was; and the "Verify" button is drawn again in the next run
\* (action selected, a face registered, the session holding the frame).
NoMatchKeepsFrame ==
    [][(ev'.op = "verify" /\ ~Truthy(ev'.name)) =>
           LET t == ev'.check_type
           IN  /\ verification' = verification
               /\ verification'[t].frame # NoFrame
               /\ verification'[t].last_capture_time # NoTime
               /\ ~verification[t].verification_done
                      => ~verification'[t].verification_done
               /\ attendance' = attendance
               /\ current_action' = t
               /\ HasRegisteredFaces(faces_db')]_vars

\* recognize_face returned None (temp_live.jpg was removed on the way out)
\* for a session that holds an unverified frame, with nothing logged.
NoMatchWitness ==
    /\ ev.op = "verify"
    /\ ev.name = None
    /\ ~temp_live
    /\ verification[ev.check_type].frame # NoFrame
    /\ ~verification[ev.check_type].verification_done
    /\ attendance = LedgerFile("absent", <<>>)
    /\ ENABLED VerifyClick

\* The clicks inside webcam_verification.
SessionOps == { "capture_frame", "capture_failed", "verify", "recapture", "reset" }

\* C14: a capture, verify, recapture or reset of one check type leaves the
\* session of the other check type as it was; and for a session holding a
\* frame, whatever records the ledger holds, a verify that recognized a
\* registered name logs exactly when the write of the file does not fail (no
\* Check-In is asked for before a Check-Out, a repeated check of the same
\* type for the same name is not refused).
SessionsIndependent ==
    [][/\ ev'.op \in SessionOps =>
              \A u \in CheckTypes \ { ev'.check_type } :
                  verification'[u] = verification[u]
       /\ \A t \in CheckTypes, f \in JpgFiles(faces_db), fault \in WriteFaults :
              (verification[t] # Absent /\ verification[t].frame # NoFrame) =>
                  LET recognition == [raised |-> FALSE, recognized |-> SplitextStem(f),
                                      calls |-> << f >>, temp |-> FALSE]
                  IN  VerifyFrame(verification[t], t, recognition,
                                  attendance, clock, fault).logged
                          = (fault = "none")]_vars

\* A Check-Out was logged into a ledger holding no Check-In, while the
\* Check-In session kept the frame it had captured.
SessionsIndependentWitness ==
    /\ ev.op = "verify"
    /\ ev.logged
    /\ ev.check_type = "Check-Out"
    /\ attendance.kind = "array"
    /\ \A i \in 1 .. Len(attendance.recs) : attendance.recs[i].Type = "Check-Out"
    /\ verification["Check-In"] # Absent
    /\ verification["Check-In"].frame # NoFrame
    /\ ~verification["Check-In"].verification_done

\* C15: "Reset All Sessions" leaves no session of either check type, no
\* selected action and the registration flags as in a new browser session,
\* and leaves the ledger file and the reference store as they were.
ResetAllKeepsFiles ==
    [][ev'.op = "reset_all" =>
           /\ \A t \in CheckTypes : verification'[t] = Absent
           /\ current_action' = NoAction
           /\ capture_face' = FALSE
           /\ face_name' = <<>>
           /\ attendance' = attendance
           /\ faces_db' = faces_db]_vars

\* Everything was reset while the ledger held a record and a face was
\* registered by the operator.
ResetAllWitness ==
    /\ ev.op = "reset_all"
    /\ LedgerLen(attendance) = 1
    /\ faces_db[JpgName(<< "a" >>)] # NoFile
    /\ current_action = NoAction
    /\ \A t \in CheckTypes : verification[t] = Absent

\* C16: "Capture Face" with a name that is non-empty after trimming stores
\* the frame under <trimmed name>.jpg when the camera gave one, in place of
\* the image that file held, every other file of the store being left as it
\* was; when the camera is not opened or its read fails the store is as it
\* was.
RegistrationLastWriteWins ==
    (ev.op = "add_face" /\ ev.pressed /\ Strip(ev.name) # <<>>) =>
        LET file == Append(Strip(ev.name), ".jpg")
        IN  /\ ev.camera
            /\ IF ev.cam = "ok"
               THEN /\ faces_db[file] = clock
                    /\ \A f \in DirNames \ { file } : faces_db[f] = ev.before[f]
               ELSE faces_db = ev.before

\* The name " a " was registered again: a.jpg holds the new frame in place of
\* the earlier one, next to the image of another identity.
RegistrationWitness ==
    /\ ev.op = "add_face"
    /\ ev.pressed
    /\ ev.name = << " ", "a", " " >>
    /\ ev.cam = "ok"
    /\ ev.before[<< "a", ".jpg" >>] = 0
    /\ faces_db[<< "a", ".jpg" >>] = 1
    /\ faces_db[EarlierFile] = 0

\* C17: the ledger read from the file changes only in a verify that
\* recognized a name, and then it is the ledger before followed by one record
\* with that name, the session's check type and the second of the verify
\* click; every other run of the script leaves the ledger as it was.
LedgerChangesOnlyByVerify ==
    [][LET earlier == load_attendance_data(attendance)
           later == load_attendance_data(attendance')
       IN  (later.raised \/ ToDictRecords(later.df) # ToDictRecords(earlier.df)) =>
               /\ ev'.op = "verify"
               /\ Truthy(ev'.name)
               /\ ~later.raised
               /\ ToDictRecords(later.df) =
                      ToDictRecords(earlier.df) \o
                          << [Name |-> ev'.name, Type |-> ev'.check_type,
                              Time |-> clock] >>]_vars

\* C18: when the log_check calls of two operators have both returned True,
\* whatever the order their load and rewrite steps were taken in, the records
\* of both are in the ledger read from the file.
NoLostUpdate ==
    (\A o \in Operators : pending[o].pc = "done" /\ pending[o].ok) =>
        LET later == load_attendance_data(attendance)
        IN  /\ ~later.raised
            /\ \A o \in Operators :
                   \E i \in 1 .. Len(later.df.rows) :
                       ToDictRecords(later.df)[i] = pending[o].record

\* C19: in every state a run of the script leaves, a session whose
\* verification_done is true holds a frame; and verification_done is true
\* either because it was true before for the same captured frame, or because
\* this run was a verify of that check type on that frame whose log_check
\* returned True, the record of that check type being the last of the ledger.
\* With verification_done false at the start and after every capture, a true
\* flag so stands for a record of the check type logged since the frame was
\* captured.
DoneMeansLoggedSinceCapture ==
    [][\A t \in CheckTypes :
         (verification'[t] # Absent /\ verification'[t].verification_done) =>
             /\ verification'[t].frame # NoFrame
             /\ verification[t] # Absent
             /\ verification'[t].frame = verification[t].frame
             /\ verification'[t].last_capture_time = verification[t].last_capture_time
             /\ \/ /\ verification[t].verification_done
                   /\ ~(ev'.op = "capture_frame" /\ ev'.check_type = t)
                \/ /\ ev'.op = "verify"
                   /\ ev'.check_type = t
                   /\ ev'.logged
                   /\ attendance'.kind = "array"
                   /\ attendance'.recs[Len(attendance'.recs)].Type = t
                   /\ attendance'.recs[Len(attendance'.recs)].Time
                          >= verification'[t].last_capture_time]_vars

\* A verify a second after the capture logged its record and marked the
\* session done.
DoneWitness ==
    /\ ev.op = "verify"
    /\ ev.logged
    /\ verification[ev.check_type].verification_done
    /\ verification[ev.check_type].frame = 0
    /\ attendance.kind = "array"
    /\ attendance.recs[Len(attendance.recs)].Type = ev.check_type
    /\ attendance.recs[Len(attendance.recs)].Time = 1

====
